---- MODULE Spec2Model ----
(***************************************************************************)
(* Siemens RDF302 integration: the shared ModbusHost (modbus_host.py), the *)
(* host table kept in hass.data[DOMAIN] by async_setup_entry and           *)
(* async_unload_entry (__init__.py), and the climate entity that calls the *)
(* host (climate.py).                                                      *)
(*                                                                         *)
(* Every action is one run of a coroutine between two suspension points    *)
(* (asyncio is cooperative: code between two awaits that really suspend    *)
(* runs without interleaving).                                             *)
(***************************************************************************)
EXTENDS Integers, Sequences, FiniteSets, TLC

\* ------------------------------------------------------------------ bounds
\* total number of async_setup_entry calls in a behaviour
MaxSetups == 2
\* total number of set_* commands and polls Home Assistant starts on added
\* entities in a behaviour
MaxTasks == 2
\* set_* commands and polls of the entities of one entry that are under way
\* at the same time
MaxRunning == 2
\* total number of register operations started in a behaviour
MaxCalls == 3
\* register operations that tasks start while entries come and go
MaxTaskCalls == 2

\* ------------------------------------------------------- program constants
\* ModbusHost.__init__(..., max_retries=3, ...)
MaxRetries == 3
\* ModbusHost.__init__(..., retry_delay=0.5), in milliseconds
RetryDelayMs == 500
\* config_flow.user_schema: vol.Optional(CONF_PORT, default=502)
DefaultPort == 502

\* The configuration entries the user created; both name the same endpoint.
Entries == {"a", "b"}

\* a configuration entry for a thermostat behind another endpoint
OtherEntries == {"c"}

AllEntries == Entries \cup OtherEntries

\* the coroutines that run the set_* commands and the polls of the entities
\* of an entry; nothing in climate.py keeps two of them from running at the
\* same time
CoroutineIds ==
    [e \in AllEntries |->
        CASE e = "a" -> <<"a1", "a2", "a3">>
          [] e = "b" -> <<"b1", "b2", "b3">>
          [] e = "c" -> <<"c1", "c2", "c3">>]

Coroutines(e) == {CoroutineIds[e][n] : n \in 1..MaxRunning}

\* the entry of caller t: of the task of an entry, or of a coroutine of its
\* entities
EntryOf(t) ==
    CHOOSE e \in AllEntries :
        t = e \/ \E n \in DOMAIN CoroutineIds[e] : CoroutineIds[e][n] = t

\* who calls the operations of a host: per entry a task that holds
\* hass.data[entry.entry_id], and the coroutines of its entities
CallersOf(E) == E \cup UNION {Coroutines(e) : e \in E}

Callers == CallersOf(AllEntries)

CoroutinesOf(E) == UNION {Coroutines(e) : e \in E}

\* entry.data of a configuration entry
EntryData(e) ==
    [host |-> IF e \in Entries THEN "10.0.0.5" ELSE "10.0.0.6",
     port |-> DefaultPort]

\* host_key = f"{host}:{port}"
host_key(e) == <<EntryData(e).host, EntryData(e).port>>

Keys == {host_key(e) : e \in AllEntries}

\* ModbusHost objects, in order of construction
Instances == 1..MaxSetups

\* ------------------------------------------------------------ the transport
OpKinds == {"read_holding_registers", "read_input_registers", "read_coils",
            "read_coil", "write_register", "write_coil"}

RetryReads == {"read_holding_registers", "read_input_registers", "read_coils"}

Writes == {"write_register", "write_coil"}

\* the count argument of the reads that take one
Counts == {1, 2}

\* register values / coil bits a response can carry
Payloads == {<< >>, <<1>>, <<1, 0>>}

\* exceptions the pymodbus client can raise
Exceptions == {"ModbusIOException", "ModbusException", "Exception"}

NoResponse == [err |-> FALSE, vals |-> << >>, exc |-> "none", got |-> FALSE]

\* what one transport call can come back with: an error PDU (isError()), a
\* PDU carrying values, or an exception
ReadResponses ==
    {[err |-> TRUE, vals |-> << >>, exc |-> "none", got |-> TRUE]}
    \cup {[err |-> FALSE, vals |-> p, exc |-> "none", got |-> TRUE] : p \in Payloads}
    \cup {[err |-> FALSE, vals |-> << >>, exc |-> x, got |-> TRUE] : x \in Exceptions}

\* register values the thermostat answers a poll with
RegisterValues == {33}

\* the answers to the reads of a poll: one register
PollResponses ==
    {[err |-> FALSE, vals |-> <<v>>, exc |-> "none", got |-> TRUE] :
       v \in RegisterValues}

\* outcomes of AsyncModbusTcpClient.connect(): connected, not connected
\* (returns False), or an exception
ConnectOutcomes == {"connected", "refused"} \cup Exceptions

\* -------------------------------------------------------------------- state
VARIABLES
    hosts,             \* hass.data[DOMAIN]: host_key -> ModbusHost
    entry_data,        \* hass.data[entry.entry_id]: entry -> ModbusHost
    entity,            \* SiemensRDF302._modbus of the entity of an entry
    entry_pc,          \* where the setup/unload coroutine of an entry is
    unload_host,       \* local modbus_host of a suspended async_unload_entry
    again,             \* entries whose unload has been requested a second time
    created,           \* number of ModbusHost objects constructed
    subscriber_count,  \* ModbusHost._subscriber_count
    connected,         \* ModbusHost._client.connected
    locked,            \* ModbusHost._lock is held
    waiters,           \* ModbusHost._lock: tasks waiting, first come first
    inflight,          \* transport read/write calls awaiting their response
    disc_tasks,        \* tasks created by remove_subscriber, per host:
                       \*   [scheduled, closing]
    op,                \* the register operation of each caller
    acquired,          \* per host_key: add_subscriber calls made
    released,          \* per host_key: remove_subscriber calls made
    setups,            \* async_setup_entry calls so far
    calls,             \* register operations started by Call so far
    cache,             \* the attributes of the entity object built by the
                       \* last platform setup of an entry
    task,              \* the set_* command or async_update a coroutine runs
    started            \* commands and polls started on added entities so far

vars == <<again, hosts, entry_data, entity, entry_pc, unload_host, created,
          subscriber_count, connected, locked, waiters, inflight, disc_tasks,
          op, acquired, released, setups, calls, cache, task, started>>

tableVars == <<again, hosts, entry_data, entity, entry_pc, unload_host, created,
               subscriber_count, disc_tasks, acquired, released, setups>>

entityVars == <<cache, task, started>>

regVars == <<tableVars, entityVars>>

hostVars == <<connected, locked, waiters, inflight, op, calls>>

\* a caller with no operation in progress
IdleOp == [pc |-> "idle", kind |-> "none", count |-> 0, host |-> 0,
           attempt |-> 0, connects |-> 0, issued |-> 0, rejected |-> 0,
           sleeps |-> 0,
           waited |-> 0, lost |-> FALSE, resp |-> NoResponse,
           result |-> [tag |-> "pending", vals |-> << >>]]

\* SiemensRDF302.__init__: the attributes of a new entity; temperatures are
\* << >> for None, else <<numerator, denominator>> in degrees
InitialCache ==
    [hvac_mode |-> "off", target_temperature |-> << >>,
     current_temperature |-> << >>, fan_mode |-> "off",
     preset_modes |-> "unset"]

\* a coroutine that runs neither a command nor a poll; host is self._modbus
\* of the entity object that runs it, detached tells that this object is no
\* longer the one the last platform setup built, adding that the poll is the
\* one async_add_entities runs before it adds the entity, unwritten that the
\* write of the last set_* command did not report success, last is what
\* the last call the coroutine awaited came back with
NoTask == [kind |-> "none", attr |-> "none", mode |-> "none", temp |-> << >>,
           step |-> 0, host |-> 0, detached |-> FALSE, adding |-> FALSE,
           unwritten |-> FALSE, last |-> "none"]

\* dict helpers
Put(d, k, v) == [x \in DOMAIN d \cup {k} |-> IF x = k THEN v ELSE d[x]]

Del(d, k) == [x \in DOMAIN d \ {k} |-> d[x]]

EmptyDict == [x \in {} |-> 0]

\* ModbusHost.__init__: a fresh host has no subscriber, a free lock and a
\* client that is not connected; async_setup (__init__.py) empties the table
Init ==
    /\ hosts = EmptyDict
    /\ entry_data = EmptyDict
    /\ entity = EmptyDict
    /\ unload_host = EmptyDict
    /\ again = {}
    /\ entry_pc = [e \in AllEntries |-> "not_loaded"]
    /\ created = 0
    /\ subscriber_count = [i \in Instances |-> 0]
    /\ connected = [i \in Instances |-> FALSE]
    /\ locked = [i \in Instances |-> FALSE]
    /\ waiters = [i \in Instances |-> << >>]
    /\ inflight = [i \in Instances |-> 0]
    /\ disc_tasks = [i \in Instances |-> [scheduled |-> 0, closing |-> 0]]
    /\ op = [t \in Callers |-> IdleOp]
    /\ acquired = [k \in Keys |-> 0]
    /\ released = [k \in Keys |-> 0]
    /\ setups = 0
    /\ calls = 0
    /\ cache = [e \in AllEntries |-> InitialCache]
    /\ task = [t \in Callers |-> NoTask]
    /\ started = 0

\* ------------------------------------------------------------- ModbusHost
\* the coroutine ends by returning a value: "values" (a list), "bit" (one
\* coil), "True", "False" or "None"
Return(r, tag, vals) ==
    [r EXCEPT !.pc = "done", !.result = [tag |-> tag, vals |-> vals]]

\* the coroutine ends by an exception that reaches the caller
Raise(r) ==
    [r EXCEPT !.pc = "done", !.result = [tag |-> "raised", vals |-> << >>]]

\* Sleep with a delay that grows with the attempt (backoff)
SleepBackoff(r) ==
    [r EXCEPT !.pc = "sleep", !.rejected = @ + 1, !.sleeps = @ + 1,
              !.waited = @ + RetryDelayMs * (r.attempt + 1)]

\* the attempt was not accepted and the loop goes on:
\* await asyncio.sleep(self._retry_delay)
Sleep(r) ==
    [r EXCEPT !.pc = "sleep", !.rejected = @ + 1, !.sleeps = @ + 1,
              !.waited = @ + RetryDelayMs]

\* the last attempt was not accepted: the loop ends, return None
Exhausted(r) ==
    Return([r EXCEPT !.rejected = @ + 1], "None", << >>)

\* async_read_holding_registers with the end of the loop tested before the
\* response: an accepted last attempt is reported as exhaustion
async_read_holding_registers_exhaust_first(r, resp) ==
    IF resp.exc # "none" THEN Raise(r)
    ELSE IF r.attempt >= MaxRetries - 1 THEN Exhausted(r)
    ELSE IF ~resp.err /\ Len(resp.vals) = r.count
         THEN Return(r, "values", resp.vals)
    ELSE Sleep(r)

\* One pass of the loop body of async_read_holding_registers from the point
\* where connect() or the transport call comes back with resp (no
\* try/except: an exception leaves the coroutine).
async_read_holding_registers(r, resp) ==
    IF resp.exc # "none" THEN Raise(r)
    ELSE IF ~resp.err /\ Len(resp.vals) = r.count
         THEN Return(r, "values", resp.vals)
    ELSE IF r.attempt < MaxRetries - 1 THEN Sleep(r)
    ELSE Exhausted(r)

\* async_read_input_registers that goes round the loop once more
async_read_input_registers_extra_attempt(r, resp) ==
    IF resp.exc # "none" THEN Raise(r)
    ELSE IF ~resp.err /\ Len(resp.vals) = r.count
         THEN Return(r, "values", resp.vals)
    ELSE IF r.attempt < MaxRetries THEN Sleep(r)
    ELSE Exhausted(r)

async_read_input_registers(r, resp) ==
    IF resp.exc # "none" THEN Raise(r)
    ELSE IF ~resp.err /\ Len(resp.vals) = r.count
         THEN Return(r, "values", resp.vals)
    ELSE IF r.attempt < MaxRetries - 1 THEN Sleep(r)
    ELSE Exhausted(r)

\* async_read_coils that accepts whatever number of bits comes back
async_read_coils_any_length(r, resp) ==
    IF resp.exc # "none" THEN Raise(r)
    ELSE IF ~resp.err
         THEN Return(r, "values", resp.vals)
    ELSE IF r.attempt < MaxRetries - 1 THEN Sleep(r)
    ELSE Exhausted(r)

async_read_coils(r, resp) ==
    IF resp.exc # "none" THEN Raise(r)
    ELSE IF ~resp.err /\ Len(resp.vals) = r.count
         THEN Return(r, "values", resp.vals)
    ELSE IF r.attempt < MaxRetries - 1 THEN Sleep(r)
    ELSE Exhausted(r)

\* async_read_coil: one attempt; result.bits[0] of an empty list raises
\* IndexError
async_read_coil(r, resp) ==
    IF resp.exc # "none" THEN Raise(r)
    ELSE IF ~resp.err
         THEN IF Len(resp.vals) = 0 THEN Raise(r)
              ELSE Return(r, "bit", <<resp.vals[1]>>)
    ELSE Return(r, "None", << >>)

\* async_write_register with the retry loop of the reads
async_write_register_retry(r, resp) ==
    IF resp.exc # "none" THEN Return(r, "False", << >>)
    ELSE IF ~resp.err THEN Return(r, "True", << >>)
    ELSE IF r.attempt < MaxRetries - 1 THEN Sleep(r)
    ELSE Return([r EXCEPT !.rejected = @ + 1], "None", << >>)

\* async_write_register: every exception is caught and gives False; a
\* response with the error flag is logged and the function falls off its
\* end (no return statement: None)
async_write_register(r, resp) ==
    IF resp.exc # "none" THEN Return(r, "False", << >>)
    ELSE IF ~resp.err THEN Return(r, "True", << >>)
    ELSE Return([r EXCEPT !.rejected = @ + 1], "None", << >>)

\* async_write_coil without its last clause, "except Exception"
async_write_coil_narrow(r, resp) ==
    IF resp.exc = "Exception" THEN Raise(r)
    ELSE IF resp.exc # "none" THEN Return(r, "False", << >>)
    ELSE IF ~resp.err THEN Return(r, "True", << >>)
    ELSE Return([r EXCEPT !.rejected = @ + 1], "None", << >>)

async_write_coil(r, resp) ==
    IF resp.exc # "none" THEN Return(r, "False", << >>)
    ELSE IF ~resp.err THEN Return(r, "True", << >>)
    ELSE Return([r EXCEPT !.rejected = @ + 1], "None", << >>)

\* the operation r continues with resp
Continue(r, resp) ==
    CASE r.kind = "read_holding_registers" -> async_read_holding_registers(r, resp)
      [] r.kind = "read_input_registers" -> async_read_input_registers(r, resp)
      [] r.kind = "read_coils" -> async_read_coils(r, resp)
      [] r.kind = "read_coil" -> async_read_coil(r, resp)
      [] r.kind = "write_register" -> async_write_register(r, resp)
      [] r.kind = "write_coil" -> async_write_coil(r, resp)

\* the transport call of the operation is issued: await self._client.<call>
Issue(r) == [r EXCEPT !.pc = "inflight", !.issued = @ + 1]

\* async_connect followed by the transport call: when the client is
\* connected, connect is skipped and the call is issued without suspending
\* in between; otherwise the task suspends in self._client.connect()
Attempt(r) ==
    LET c == [r EXCEPT !.connects = @ + 1]
    IN IF connected[r.host] THEN Issue(c) ELSE [c EXCEPT !.pc = "connecting"]

\* the transport calls that await their response, f of them before, once
\* the operation n has been through Attempt
InFlight(f, n) ==
    IF n.pc = "inflight" THEN [f EXCEPT ![n.host] = @ + 1] ELSE f

\* one lock shared by all ModbusHost objects
LockOfShared(h) == 1

\* self._lock: every ModbusHost constructs a lock of its own
LockOf(h) == h

\* a lock that stays held when the block is left by an exception
ReleaseUnlessRaised(r) ==
    [locked EXCEPT ![LockOf(r.host)] =
        IF r.pc = "done" /\ r.result.tag # "raised" THEN FALSE ELSE @]

\* a lock that is given up for the time of the retry wait
ReleaseWhileSleeping(r) ==
    [locked EXCEPT ![LockOf(r.host)] =
        IF r.pc \in {"done", "sleep"} THEN FALSE ELSE @]

\* "async with self._lock" exit, on every way out of the block: the locks
\* once the operation has got to r
ReleaseIfDone(r) ==
    [locked EXCEPT ![LockOf(r.host)] = IF r.pc = "done" THEN FALSE ELSE @]

\* a host whose operations do not take the lock
LockIgnored(l, w) == TRUE

\* a lock that a newcomer takes ahead of the tasks that wait for it
LockFreeBarging(l, w) == ~l

\* asyncio.Lock.acquire returns at once when the lock is free (l: it is
\* held) and nobody waits for it (w: the tasks that wait)
LockFree(l, w) == ~l /\ w = << >>

\* "async with self._lock" at the start of the operation r of caller e, for
\* a lock whose state is l and whose queue is w: the caller takes the lock
\* when it is free and nobody waits, and goes on to its first attempt; else
\* it queues
Entered(e, r, l, w) ==
    IF LockFree(l, w)
    THEN [op |-> Attempt(r), locked |-> TRUE, waiters |-> w]
    ELSE [op |-> [r EXCEPT !.pc = "waitlock"], locked |-> l,
          waiters |-> Append(w, e)]

\* Caller e calls an operation of the host h it holds.
StartOp(e, h, kind, count) ==
    /\ LET i == LockOf(h)
           r == [IdleOp EXCEPT !.kind = kind, !.count = count, !.host = h]
           s == Entered(e, r, locked[i], waiters[i])
       IN /\ op' = [op EXCEPT ![e] = s.op]
          /\ locked' = [locked EXCEPT ![i] = s.locked]
          /\ waiters' = [waiters EXCEPT ![i] = s.waiters]
          /\ inflight' = InFlight(inflight, s.op)
    /\ UNCHANGED connected

\* the task of entry e, which holds hass.data[entry.entry_id] and has no
\* operation under way, calls an operation of that host
Call(e, kind, count) ==
    /\ calls < MaxCalls
    /\ e \in DOMAIN entry_data
    /\ op[e].pc = "idle"
    /\ calls' = calls + 1
    /\ StartOp(e, entry_data[e], kind, count)
    /\ UNCHANGED <<tableVars, entityVars>>

\* asyncio.Lock wakes the longest-waiting task once the lock is free
LockAcquired(e) ==
    /\ op[e].pc = "waitlock"
    /\ LET i == LockOf(op[e].host)
           n == Attempt(op[e])
       IN /\ ~locked[i]
          /\ waiters[i] # << >>
          /\ Head(waiters[i]) = e
          /\ locked' = [locked EXCEPT ![i] = TRUE]
          /\ waiters' = [waiters EXCEPT ![i] = Tail(@)]
          /\ op' = [op EXCEPT ![e] = n]
          /\ inflight' = InFlight(inflight, n)
    /\ UNCHANGED <<regVars, connected, calls>>

\* asyncio.sleep(self._retry_delay) is over: next pass of the loop
SleepDone(e) ==
    /\ op[e].pc = "sleep"
    /\ LET n == Attempt([op[e] EXCEPT !.attempt = @ + 1])
       IN /\ op' = [op EXCEPT ![e] = n]
          /\ inflight' = InFlight(inflight, n)
    /\ UNCHANGED <<regVars, connected, locked, waiters, calls>>

\* the task of entry e, which was given the result of its operation when
\* the operation ended, lets go of it
Finish(e) ==
    /\ op[e].pc = "done"
    /\ e \in AllEntries
    /\ op' = [op EXCEPT ![e] = IdleOp]
    /\ UNCHANGED <<regVars, connected, locked, waiters, inflight, calls>>

\* ------------------------------------------------ the entity (climate.py)
\* hvac_modes, and HVACMode.OFF, the mode of a new entity
HvacModes == {"cool", "heat", "off"}

\* preset_modes
PresetModes == {"comfort", "eco", "away"}

\* fan_modes
FanModes == {"low", "medium", "high", "off"}

\* values of the "temperature" argument of async_set_temperature, in degrees
\* as <<numerator, denominator>>; << >> is a call without it
Temperatures == {<< >>, <<21, 1>>, <<43, 2>>}

\* what a transport call of the entity can come back with: an error
\* response, two values, an exception, or one register
EntityResponses ==
    {r \in ReadResponses :
        r.err \/ Len(r.vals) = 2 \/ r.exc = "ModbusException"}
    \cup PollResponses

\* _value_to_hvac_mode: {0: COOL, 1: HEAT}.get(mode, HEAT)
_value_to_hvac_mode(mode) == IF mode = 0 THEN "cool" ELSE "heat"

\* _value_to_fan_mode: {0: "off", 33: "low", 66: "medium", 100: "high"}
\* .get(value, "off")
_value_to_fan_mode(value) ==
    CASE value = 33 -> "low"
      [] value = 66 -> "medium"
      [] value = 100 -> "high"
      [] OTHER -> "off"

\* _value_to_preset_mode: {1: COMFORT, 3: ECO, 4: AWAY}.get(value, AWAY)
_value_to_preset_mode(value) ==
    CASE value = 1 -> "comfort"
      [] value = 3 -> "eco"
      [] OTHER -> "away"

\* a set_* command that takes a write result of None for a success
if_success_unless_false(result) == result.tag # "False"

\* "if success:" on the value async_write_register returned: True passes,
\* False and None do not
if_success(result) == result.tag = "True"

\* the command or poll is over
EndTask(t) == [NoTask EXCEPT !.unwritten = t.unwritten, !.last = t.last]

\* coroutine t runs neither a command nor a poll
Idle(t) == task[t].kind = "none" /\ op[t].pc = "idle"

HasCoroutine(e) == \E t \in Coroutines(e) : Idle(t)

\* the coroutine a new command or poll of an entity of entry e runs in
NewCoroutine(e) ==
    LET n == CHOOSE n \in 1..MaxRunning :
                 /\ Idle(CoroutineIds[e][n])
                 /\ \A m \in 1..(n - 1) : ~Idle(CoroutineIds[e][m])
    IN CoroutineIds[e][n]

\* a set_* command awaits self._modbus.async_write_register(...)
SetCommand(e, attr, mode, temp) ==
    LET t == NewCoroutine(e)
    IN /\ task' = [task EXCEPT ![t] = [@ EXCEPT !.kind = "set", !.attr = attr,
                                                  !.mode = mode, !.temp = temp,
                                                  !.host = entity[e]]]
       /\ StartOp(t, entity[e], "write_register", 1)
       /\ UNCHANGED <<tableVars, cache, calls>>

\* a set_* command that returns without a write
NoCommand == UNCHANGED <<tableVars, hostVars, cache, task>>

\* Home Assistant calls a set_* command or async_update of the entity it
\* added for entry e, whatever that entity is running
Ready(e) ==
    /\ started < MaxTasks
    /\ e \in DOMAIN entity
    /\ HasCoroutine(e)
    /\ started' = started + 1

\* async_set_hvac_mode: the register is written only when the mode differs
\* from the cached one
async_set_hvac_mode(e, hvac_mode) ==
    /\ Ready(e)
    /\ IF cache[e].hvac_mode # hvac_mode
       THEN SetCommand(e, "hvac_mode", hvac_mode, << >>)
       ELSE NoCommand

\* async_set_preset_mode
async_set_preset_mode(e, preset_mode) ==
    /\ Ready(e)
    /\ SetCommand(e, "preset_modes", preset_mode, << >>)

\* async_set_temperature: nothing is written without a temperature
async_set_temperature(e, temperature) ==
    /\ Ready(e)
    /\ IF temperature # << >>
       THEN SetCommand(e, "target_temperature", "none", temperature)
       ELSE NoCommand

\* async_set_fan_mode
async_set_fan_mode(e, fan_mode) ==
    /\ Ready(e)
    /\ SetCommand(e, "fan_mode", fan_mode, << >>)

\* self.<attribute> = ... of the entity object that runs t: cache holds the
\* attributes of the entity of the entry, which an object replaced by a later
\* setup no longer is
Assigned(t, c, new) == IF t.detached THEN c ELSE new

\* the attribute a set_* command stores after "if success:"
Stored(c, t) ==
    CASE t.attr = "hvac_mode" -> [c EXCEPT !.hvac_mode = t.mode]
      [] t.attr = "preset_modes" -> [c EXCEPT !.preset_modes = t.mode]
      [] t.attr = "fan_mode" -> [c EXCEPT !.fan_mode = t.mode]
      [] t.attr = "target_temperature" -> [c EXCEPT !.target_temperature = t.temp]

\* the write of the set_* command that coroutine t runs ends as n, f being
\* the transport calls still awaiting their response: the lock is released,
\* "success = await ..." gets the result and "if success:" stores the
\* attribute, else the failure is logged; nothing suspends in between
SetCommandDone(t, n, f) ==
    /\ cache' = [cache EXCEPT ![EntryOf(t)] =
                     IF if_success(n.result)
                     THEN Assigned(task[t], @, Stored(@, task[t]))
                     ELSE @]
    /\ task' = [task EXCEPT ![t] =
                   EndTask([@ EXCEPT !.unwritten = n.result.tag # "True",
                                     !.last = n.result.tag])]
    /\ op' = [op EXCEPT ![t] = IdleOp]
    /\ locked' = ReleaseIfDone(n)
    /\ inflight' = f
    /\ UNCHANGED <<tableVars, waiters>>

\* the number of reads of one async_update
PollReads == 5

\* the reads of async_update, in their order: the mode is a holding register,
\* the others are input registers
PollRead(step) ==
    IF step = 3 THEN "read_holding_registers" ELSE "read_input_registers"

\* async_update stores what the read of a step returned: "if x is not None
\* and len(x) == 1", else the attribute is left alone
Polled(c, step, result) ==
    IF result.tag = "values" /\ Len(result.vals) = 1
    THEN LET v == result.vals[1]
         IN CASE step = 1 -> [c EXCEPT !.current_temperature = <<v, 50>>]
              [] step = 2 -> [c EXCEPT !.target_temperature = <<v, 50>>]
              [] step = 3 -> [c EXCEPT !.hvac_mode = _value_to_hvac_mode(v)]
              [] step = 4 -> [c EXCEPT !.fan_mode = _value_to_fan_mode(v)]
              [] step = 5 -> [c EXCEPT !.preset_modes = _value_to_preset_mode(v)]
    ELSE c

\* async_update of an entity object whose _modbus is h starts, in coroutine
\* t, with the read of the current temperature
StartPoll(t, h, adding) ==
    /\ task' = [u \in Callers |->
                   IF u = t
                   THEN [task[t] EXCEPT !.kind = "poll", !.step = 1,
                                        !.host = h, !.adding = adding]
                   ELSE IF adding /\ u \in Coroutines(EntryOf(t))
                             /\ task[u].kind # "none"
                        THEN [task[u] EXCEPT !.detached = TRUE]
                        ELSE task[u]]
    /\ StartOp(t, h, PollRead(1), 1)

\* Home Assistant polls the entity it added for entry e
async_update(e) ==
    /\ Ready(e)
    /\ StartPoll(NewCoroutine(e), entity[e], FALSE)
    /\ UNCHANGED <<tableVars, cache, calls>>

\* async_update is over with its read ended as n. Its "finally" logs
\* self._attr_preset_modes, which __init__ does not set: the poll ends by
\* an AttributeError unless the preset has been stored.
\* async_add_entities(update_before_add=True) adds the entity when its first
\* poll returned and drops it when the poll raised; either way the platform
\* setup is over.
EndPoll(t, c, n, f) ==
    /\ task' = [task EXCEPT ![t] = EndTask([@ EXCEPT !.last = n.result.tag])]
    /\ op' = [op EXCEPT ![t] = IdleOp]
    /\ locked' = ReleaseIfDone(n)
    /\ inflight' = f
    /\ IF task[t].adding
       THEN /\ entry_pc' = [entry_pc EXCEPT ![EntryOf(t)] = "loaded"]
            /\ entity' = IF c.preset_modes # "unset"
                         THEN Put(entity, EntryOf(t), task[t].host)
                         ELSE entity
       ELSE UNCHANGED <<entry_pc, entity>>
    /\ UNCHANGED <<hosts, entry_data, unload_host, again, created,
                   subscriber_count, disc_tasks, acquired, released, setups,
                   waiters>>

\* the read of async_update that coroutine t awaits ends as n, f being the
\* transport calls still awaiting their response: the lock is released, the
\* value is stored and the next read is called, which takes the lock again
\* unless another caller waits for it; nothing suspends in between. An
\* exception of the read is caught by "except Exception" and ends the poll.
async_update_step(t, n, f) ==
    LET result == n.result
        step == task[t].step
        e == EntryOf(t)
        i == LockOf(n.host)
        c == IF result.tag = "raised"
             THEN cache[e]
             ELSE Assigned(task[t], cache[e], Polled(cache[e], step, result))
    IN /\ cache' = [cache EXCEPT ![e] = c]
       /\ IF result.tag # "raised" /\ step < PollReads
          THEN LET r == [IdleOp EXCEPT !.kind = PollRead(step + 1),
                                       !.count = 1, !.host = n.host]
                   s == Entered(t, r, ReleaseIfDone(n)[i], waiters[i])
               IN /\ task' = [task EXCEPT ![t] =
                                 [@ EXCEPT !.step = step + 1,
                                           !.last = result.tag]]
                  /\ op' = [op EXCEPT ![t] = s.op]
                  /\ locked' = [locked EXCEPT ![i] = s.locked]
                  /\ waiters' = [waiters EXCEPT ![i] = s.waiters]
                  /\ inflight' = InFlight(f, s.op)
                  /\ UNCHANGED tableVars
          ELSE EndPoll(t, c, n, f)

\* ------------------------------------- the return of an awaited call
\* The operation of caller e gets to n, with f transport calls still
\* awaiting their response. While the operation goes on, and for the task of
\* an entry, that is all; the coroutine of an entity whose operation has
\* ended runs on, in the same resumption, with what a set_* command or
\* async_update does with the result.
Returned(e, n, f) ==
    IF n.pc # "done" \/ task[e].kind = "none"
    THEN /\ op' = [op EXCEPT ![e] = n]
         /\ locked' = ReleaseIfDone(n)
         /\ inflight' = f
         /\ UNCHANGED <<tableVars, cache, task, waiters>>
    ELSE IF task[e].kind = "set"
    THEN SetCommandDone(e, n, f)
    ELSE async_update_step(e, n, f)

\* self._client.connect() comes back
ConnectDone(e, outcome) ==
    /\ op[e].pc = "connecting"
    /\ LET r == op[e]
           i == r.host
       IN IF outcome \in Exceptions
          THEN LET resp == [err |-> FALSE, vals |-> << >>, exc |-> outcome,
                            got |-> FALSE]
               IN /\ Returned(e, Continue([r EXCEPT !.resp = resp], resp),
                              inflight)
                  /\ UNCHANGED connected
          ELSE /\ connected' = [connected EXCEPT
                                  ![i] = IF outcome = "connected" THEN TRUE ELSE @]
               /\ op' = [op EXCEPT ![e] = Issue(r)]
               /\ inflight' = InFlight(inflight, Issue(r))
               /\ UNCHANGED <<tableVars, cache, task, locked, waiters>>
    /\ UNCHANGED <<calls, started>>

\* the transport call comes back with a response or an exception
Respond(e, resp) ==
    /\ op[e].pc = "inflight"
    /\ LET r == [op[e] EXCEPT !.resp = resp]
       IN Returned(e, Continue(r, resp),
                   [inflight EXCEPT ![r.host] = @ - 1])
    /\ UNCHANGED <<connected, calls, started>>

\* ------------------------------------------------- the host table (__init__)

\* add_subscriber that stores 1 instead of adding 1
add_subscriber_store_one(count, h) == [count EXCEPT ![h] = 1]

\* ModbusHost.add_subscriber
add_subscriber(count, h) == [count EXCEPT ![h] = @ + 1]

\* ModbusHost.remove_subscriber: the counter goes down
remove_subscriber(count, h) == [count EXCEPT ![h] = @ - 1]

\* ModbusHost.remove_subscriber: asyncio.create_task(self.async_disconnect())
\* when the counter reached zero
remove_subscriber_task(tasks, count, h) ==
    IF count[h] = 0
    THEN [tasks EXCEPT ![h].scheduled = @ + 1]
    ELSE tasks

\* an unload that deletes the host from the table whatever its counter
unload_table_always(count, h, key) == Del(hosts, key)

\* async_unload_entry: the host leaves the table when its counter is zero
unload_table(count, h, key) == IF count[h] = 0 THEN Del(hosts, key) ELSE hosts

\* async_setup_entry up to its only await: look the host up, create it when
\* absent, add the subscriber, keep the reference for the platform
async_setup_entry(e) ==
    /\ setups < MaxSetups
    /\ entry_pc[e] = "not_loaded"
    /\ setups' = setups + 1
    /\ LET key == host_key(e)
           fresh == key \notin DOMAIN hosts
           table == IF fresh THEN Put(hosts, key, created + 1) ELSE hosts
           h == table[key]
       IN /\ hosts' = table
          /\ created' = IF fresh THEN created + 1 ELSE created
          /\ subscriber_count' = add_subscriber(subscriber_count, h)
          /\ entry_data' = Put(entry_data, e, h)
          /\ acquired' = [acquired EXCEPT ![key] = @ + 1]
    /\ entry_pc' = [entry_pc EXCEPT ![e] = "forwarding"]
    /\ UNCHANGED <<entity, unload_host, again, disc_tasks, released, hostVars,
                   entityVars>>

\* hass.config_entries.async_forward_entry_setups runs the platform:
\* climate.async_setup_entry builds the entity around hass.data[entry_id],
\* and async_add_entities([device], update_before_add=True) awaits the
\* async_update of the new entity before it adds it
climate_async_setup_entry(e) ==
    /\ entry_pc[e] = "forwarding"
    /\ HasCoroutine(e)
    /\ entry_pc' = [entry_pc EXCEPT ![e] = "adding"]
    /\ cache' = [cache EXCEPT ![e] = InitialCache]
    /\ StartPoll(NewCoroutine(e), entry_data[e], TRUE)
    /\ UNCHANGED <<hosts, entry_data, entity, unload_host, again, created,
                   subscriber_count, disc_tasks, acquired, released, setups,
                   calls, started>>

\* async_unload_entry is called and suspends in async_unload_platforms
UnloadStart(e) ==
    /\ entry_pc[e] = "loaded"
    /\ entry_pc' = [entry_pc EXCEPT ![e] = "unloading"]
    /\ UNCHANGED <<hosts, entry_data, entity, unload_host, again, created,
                   subscriber_count, disc_tasks, acquired, released, setups,
                   hostVars, entityVars>>

\* the owning layer asks twice for the unload of a loaded entry: the first
\* async_unload_entry call starts, the second is still to come
UnloadStartTwice(e) ==
    /\ entry_pc[e] = "loaded"
    /\ e \notin again
    /\ entry_pc' = [entry_pc EXCEPT ![e] = "unloading"]
    /\ again' = again \cup {e}
    /\ UNCHANGED <<hosts, entry_data, entity, unload_host, created,
                   subscriber_count, disc_tasks, acquired, released, setups,
                   hostVars, entityVars>>

\* async_unload_entry is called for an entry that a completed
\* async_unload_entry has already released
RepeatedUnloadStart(e) ==
    /\ entry_pc[e] = "not_loaded"
    /\ e \in again
    /\ entry_pc' = [entry_pc EXCEPT ![e] = "unloading_again"]
    /\ again' = again \ {e}
    /\ UNCHANGED <<hosts, entry_data, entity, unload_host, created,
                   subscriber_count, disc_tasks, acquired, released, setups,
                   hostVars, entityVars>>

\* async_unload_entry from the return of async_unload_platforms to its next
\* suspension (client.close() inside async_disconnect) or to its end.
\* Whether awaiting client.close() gives control to other tasks is up to
\* pymodbus: close_suspends.
async_unload_entry(e, unload_ok, close_suspends) ==
    /\ entry_pc[e] \in {"unloading", "unloading_again"}
    /\ IF ~unload_ok
       THEN /\ entry_pc' = [entry_pc EXCEPT
                               ![e] = IF @ = "unloading" THEN "loaded"
                                      ELSE "not_loaded"]
            /\ UNCHANGED <<hosts, entry_data, entity, unload_host,
                           subscriber_count, disc_tasks, released, connected>>
       ELSE LET key == host_key(e) IN
            /\ entity' = Del(entity, e)
            /\ IF key \notin DOMAIN hosts
               THEN \* hass.data[DOMAIN][host_key] raises KeyError
                    /\ entry_pc' = [entry_pc EXCEPT ![e] = "key_error"]
                    /\ UNCHANGED <<hosts, entry_data, unload_host,
                                   subscriber_count, disc_tasks, released,
                                   connected>>
               ELSE LET h == hosts[key]
                        count == remove_subscriber(subscriber_count, h)
                    IN /\ subscriber_count' = count
                       /\ disc_tasks' = remove_subscriber_task(disc_tasks, count, h)
                       /\ released' = [released EXCEPT ![key] = @ + 1]
                       /\ IF count[h] = 0 /\ connected[h] /\ close_suspends
                          THEN \* await modbus_host.async_disconnect() suspends
                               /\ unload_host' = Put(unload_host, e, h)
                               /\ entry_pc' = [entry_pc EXCEPT ![e] = "closing"]
                               /\ UNCHANGED <<hosts, entry_data, connected>>
                          ELSE /\ connected' = IF count[h] = 0
                                               THEN [connected EXCEPT ![h] = FALSE]
                                               ELSE connected
                               /\ hosts' = unload_table(count, h, key)
                               /\ IF e \in DOMAIN entry_data
                                  THEN /\ entry_data' = Del(entry_data, e)
                                       /\ entry_pc' = [entry_pc EXCEPT
                                                          ![e] = "not_loaded"]
                                  ELSE \* del hass.data[entry.entry_id]
                                       \* raises KeyError
                                       /\ entry_pc' = [entry_pc EXCEPT
                                                          ![e] = "key_error"]
                                       /\ UNCHANGED entry_data
                               /\ UNCHANGED unload_host
    /\ UNCHANGED <<again, created, acquired, setups, locked, waiters, inflight,
                   op, calls, entityVars>>

\* client.close() of the suspended async_unload_entry is over: the entry of
\* the table and the reference of the entry are deleted
UnloadCloseDone(e) ==
    /\ entry_pc[e] = "closing"
    /\ connected' = [connected EXCEPT ![unload_host[e]] = FALSE]
    /\ unload_host' = Del(unload_host, e)
    /\ IF host_key(e) \notin DOMAIN hosts
       THEN \* del hass.data[DOMAIN][host_key] raises KeyError
            /\ entry_pc' = [entry_pc EXCEPT ![e] = "key_error"]
            /\ UNCHANGED <<hosts, entry_data>>
       ELSE /\ hosts' = Del(hosts, host_key(e))
            /\ IF e \in DOMAIN entry_data
               THEN /\ entry_data' = Del(entry_data, e)
                    /\ entry_pc' = [entry_pc EXCEPT ![e] = "not_loaded"]
               ELSE \* del hass.data[entry.entry_id] raises KeyError
                    /\ entry_pc' = [entry_pc EXCEPT ![e] = "key_error"]
                    /\ UNCHANGED entry_data
    /\ UNCHANGED <<again, entity, created, subscriber_count, disc_tasks, acquired,
                   released, setups, locked, waiters, inflight, op, calls,
                   entityVars>>

\* a task created by remove_subscriber runs async_disconnect: nothing to do
\* when the client is not connected, else it awaits client.close()
async_disconnect(h, close_suspends) ==
    /\ disc_tasks[h].scheduled > 0
    /\ disc_tasks' = [disc_tasks EXCEPT
                        ![h] = [scheduled |-> @.scheduled - 1,
                                closing |-> IF connected[h] /\ close_suspends
                                            THEN @.closing + 1
                                            ELSE @.closing]]
    /\ connected' = IF close_suspends THEN connected
                    ELSE [connected EXCEPT ![h] = FALSE]
    /\ UNCHANGED <<again, hosts, entry_data, entity, entry_pc, unload_host, created,
                   subscriber_count, acquired, released, setups, locked,
                   waiters, inflight, op, calls, entityVars>>

\* client.close() of such a task is over
DisconnectDone(h) ==
    /\ disc_tasks[h].closing > 0
    /\ disc_tasks' = [disc_tasks EXCEPT ![h].closing = @ - 1]
    /\ connected' = [connected EXCEPT ![h] = FALSE]
    /\ UNCHANGED <<again, hosts, entry_data, entity, entry_pc, unload_host, created,
                   subscriber_count, acquired, released, setups, locked,
                   waiters, inflight, op, calls, entityVars>>

\* the peer or the network drops the TCP connection of a connected client
ConnectionLost(h) ==
    /\ h <= created
    /\ connected[h]
    /\ connected' = [connected EXCEPT ![h] = FALSE]
    /\ UNCHANGED <<regVars, locked, waiters, inflight, op, calls>>

\* the connection drops while a read of the host waits for its next
\* attempt; the read is marked as having lost its connection
ConnectionLostInWait(h) ==
    /\ h <= created
    /\ connected[h]
    /\ \E e \in Callers : op[e].host = h /\ op[e].pc = "sleep"
    /\ connected' = [connected EXCEPT ![h] = FALSE]
    /\ op' = [e \in Callers |->
                 IF op[e].host = h /\ op[e].pc = "sleep"
                 THEN [op[e] EXCEPT !.lost = TRUE]
                 ELSE op[e]]
    /\ UNCHANGED <<regVars, locked, waiters, inflight, calls>>

\* ------------------------------------------------------------ specification
\* the operation that tasks holding the host of an entry call on it while
\* entries come and go: a read of one register (async_read_holding_registers
\* has the body of async_read_input_registers); these callers only take the
\* result, the set_* commands and the poll of the entity, which store it, are
\* the subject of SpecEntity
TaskCalls == {"read_input_registers"}

\* in the integration as a whole the device answers every request with one
\* value
DeviceResponses ==
    {r \in ReadResponses : r.exc = "none" /\ ~r.err /\ Len(r.vals) = 1}

\* The integration: entries are set up, their entities polled and added,
\* and unloaded, while tasks that hold the host of an entry call the shared
\* host.
Next ==
    \/ \E e \in Entries : async_setup_entry(e)
    \/ \E e \in Entries : climate_async_setup_entry(e)
    \/ \E e \in Entries : UnloadStart(e)
    \/ \E e \in Entries, ok \in BOOLEAN, s \in BOOLEAN : async_unload_entry(e, ok, s)
    \/ \E e \in Entries : UnloadCloseDone(e)
    \/ \E h \in Instances, s \in BOOLEAN : async_disconnect(h, s)
    \/ \E h \in Instances : DisconnectDone(h)
    \/ \E e \in Entries, kind \in TaskCalls :
           calls < MaxTaskCalls /\ Call(e, kind, 1)
    \/ \E e \in CallersOf(Entries) : LockAcquired(e)
    \/ \E e \in CallersOf(Entries), outcome \in {"connected", "refused"} : ConnectDone(e, outcome)
    \/ \E e \in CallersOf(Entries), resp \in DeviceResponses : Respond(e, resp)
    \/ \E e \in Entries : Finish(e)

Spec == Init /\ [][Next]_vars

\* The integration under an owning layer that may ask again for the unload
\* of an entry it has already unloaded.
NextTeardown ==
    \/ \E e \in Entries : async_setup_entry(e)
    \/ \E e \in Entries : climate_async_setup_entry(e)
    \/ \E e \in Entries : UnloadStart(e)
    \/ \E e \in Entries : UnloadStartTwice(e)
    \/ \E e \in Entries : RepeatedUnloadStart(e)
    \/ \E e \in Entries, ok \in BOOLEAN, s \in BOOLEAN : async_unload_entry(e, ok, s)
    \/ \E e \in Entries : UnloadCloseDone(e)
    \/ \E h \in Instances, s \in BOOLEAN : async_disconnect(h, s)
    \/ \E h \in Instances : DisconnectDone(h)
    \/ \E e \in Entries, kind \in TaskCalls :
           calls < MaxTaskCalls /\ Call(e, kind, 1)
    \/ \E e \in CallersOf(Entries) : LockAcquired(e)
    \/ \E e \in CallersOf(Entries), outcome \in {"connected", "refused"} : ConnectDone(e, outcome)
    \/ \E e \in CallersOf(Entries), resp \in DeviceResponses : Respond(e, resp)
    \/ \E e \in Entries : Finish(e)

SpecTeardown == Init /\ [][NextTeardown]_vars

\* the thermostats of SpecTwoHosts answer with one value or report an error
TwoHostsResponses ==
    {r \in ReadResponses : r.exc = "none" /\ (r.err \/ Len(r.vals) = 1)}

\* Thermostats behind two endpoints: entries of both endpoints are set up
\* and tasks call the hosts of their entries.
NextTwoHosts ==
    \/ \E e \in AllEntries : async_setup_entry(e)
    \/ \E e \in AllEntries, kind \in TaskCalls : Call(e, kind, 1)
    \/ \E e \in AllEntries : LockAcquired(e)
    \/ \E e \in AllEntries, outcome \in {"connected", "refused"} : ConnectDone(e, outcome)
    \/ \E e \in AllEntries, resp \in TwoHostsResponses : Respond(e, resp)
    \/ \E e \in AllEntries : SleepDone(e)
    \/ \E e \in AllEntries : Finish(e)

SpecTwoHosts == Init /\ [][NextTwoHosts]_vars

\* a transport call that returns: a response, with or without error flag
TransportReturns == {r \in ReadResponses : r.exc = "none"}

\* The host under a transport whose calls all return. The event loop runs
\* every task that is ready: a task woken by the lock, a connect() or a
\* transport call that has come back, a sleep that is over.
NextFair ==
    \/ \E e \in Entries : async_setup_entry(e)
    \/ \E e \in Entries, kind \in RetryReads, count \in Counts : Call(e, kind, count)
    \/ \E e \in Entries, kind \in OpKinds \ RetryReads : Call(e, kind, 1)
    \/ \E e \in Entries : LockAcquired(e)
    \/ \E e \in Entries, outcome \in {"connected", "refused"} : ConnectDone(e, outcome)
    \/ \E e \in Entries, resp \in TransportReturns : Respond(e, resp)
    \/ \E e \in Entries : SleepDone(e)
    \/ \E e \in Entries : Finish(e)
    \/ \E h \in Instances : ConnectionLost(h)

SpecFair ==
    /\ Init
    /\ [][NextFair]_vars
    /\ \A e \in Entries :
           /\ WF_vars(LockAcquired(e))
           /\ WF_vars(\E outcome \in {"connected", "refused"} : ConnectDone(e, outcome))
           /\ WF_vars(\E resp \in TransportReturns : Respond(e, resp))
           /\ WF_vars(SleepDone(e))

\* what a transport call of a task can come back with in SpecConnection
ConnectionResponses ==
    {r \in ReadResponses :
        r.err \/ r.vals = <<1>> \/ r.exc = "ModbusIOException"}

\* One thermostat on an endpoint of its own: its entry is set up and
\* unloaded while a task calls its host and the connection may drop; the
\* reads of the poll that precedes the adding of the entity are answered.
NextConnection ==
    \/ \E e \in OtherEntries : async_setup_entry(e)
    \/ \E e \in OtherEntries : climate_async_setup_entry(e)
    \/ \E e \in OtherEntries : UnloadStart(e)
    \/ \E e \in OtherEntries, ok \in BOOLEAN, s \in BOOLEAN : async_unload_entry(e, ok, s)
    \/ \E e \in OtherEntries : UnloadCloseDone(e)
    \/ \E h \in Instances, s \in BOOLEAN : async_disconnect(h, s)
    \/ \E h \in Instances : DisconnectDone(h)
    \/ \E e \in OtherEntries, kind \in OpKinds : Call(e, kind, 1)
    \/ \E e \in CallersOf(OtherEntries) : LockAcquired(e)
    \/ \E e \in CallersOf(OtherEntries), outcome \in ConnectOutcomes : ConnectDone(e, outcome)
    \/ \E e \in OtherEntries, resp \in ConnectionResponses : Respond(e, resp)
    \/ \E t \in CoroutinesOf(OtherEntries), resp \in DeviceResponses : Respond(t, resp)
    \/ \E e \in CallersOf(OtherEntries) : SleepDone(e)
    \/ \E e \in OtherEntries : Finish(e)
    \/ \E h \in Instances : ConnectionLost(h)
    \/ \E h \in Instances : ConnectionLostInWait(h)

SpecConnection == Init /\ [][NextConnection]_vars

\* The entity alone: the entry of the second endpoint is set up, its entity
\* is polled and, when that poll returned, added; Home Assistant then calls
\* its set_* commands and polls it, also while an earlier command or poll
\* is under way, against a thermostat that answers with values, error
\* responses and exceptions.
NextEntity ==
    \/ \E e \in OtherEntries : async_setup_entry(e)
    \/ \E e \in OtherEntries : climate_async_setup_entry(e)
    \/ \E e \in OtherEntries, m \in HvacModes : async_set_hvac_mode(e, m)
    \/ \E e \in OtherEntries, m \in PresetModes : async_set_preset_mode(e, m)
    \/ \E e \in OtherEntries, t \in Temperatures : async_set_temperature(e, t)
    \/ \E e \in OtherEntries, m \in FanModes : async_set_fan_mode(e, m)
    \/ \E e \in OtherEntries : async_update(e)
    \/ \E e \in CoroutinesOf(OtherEntries) : LockAcquired(e)
    \/ \E e \in CoroutinesOf(OtherEntries), o \in {"connected"} \cup Exceptions :
           ConnectDone(e, o)
    \/ \E e \in CoroutinesOf(OtherEntries), resp \in EntityResponses : Respond(e, resp)
    \/ \E e \in CoroutinesOf(OtherEntries) : SleepDone(e)

SpecEntity == Init /\ [][NextEntity]_vars

\* what the thermostat answers in SpecReload: one register, or, to a write,
\* an error response
ReloadResponses ==
    {r \in EntityResponses : r.exc = "none" /\ (r.err \/ r.vals = <<33>>)}

\* The entity while its entry is unloaded and set up again: a command or a
\* poll that was started on the entity of the first setup goes on, on the
\* host of that entity, after the entry was unloaded and while the second
\* setup polls and adds a new entity.
NextReload ==
    \/ \E e \in OtherEntries : async_setup_entry(e)
    \/ \E e \in OtherEntries : climate_async_setup_entry(e)
    \/ \E e \in OtherEntries : UnloadStart(e)
    \/ \E e \in OtherEntries, s \in BOOLEAN : async_unload_entry(e, TRUE, s)
    \/ \E e \in OtherEntries : UnloadCloseDone(e)
    \/ \E h \in Instances, s \in BOOLEAN : async_disconnect(h, s)
    \/ \E h \in Instances : DisconnectDone(h)
    \/ \E e \in OtherEntries : async_set_fan_mode(e, "high")
    \/ \E e \in OtherEntries : async_update(e)
    \/ \E e \in CoroutinesOf(OtherEntries) : LockAcquired(e)
    \/ \E e \in CoroutinesOf(OtherEntries) : ConnectDone(e, "connected")
    \/ \E e \in CoroutinesOf(OtherEntries), resp \in ReloadResponses :
           (resp.err => op[e].kind \in Writes) /\ Respond(e, resp)

SpecReload == Init /\ [][NextReload]_vars


\* The host alone: the hosts of the entries are created by
\* async_setup_entry, and the tasks that hold them call every operation of
\* ModbusHost against a transport that may answer, fail, raise or drop the
\* connection.
NextHost ==
    \/ \E e \in Entries : async_setup_entry(e)
    \/ \E e \in Entries, kind \in RetryReads, count \in Counts : Call(e, kind, count)
    \/ \E e \in Entries, kind \in OpKinds \ RetryReads : Call(e, kind, 1)
    \/ \E e \in Entries : LockAcquired(e)
    \/ \E e \in Entries, outcome \in ConnectOutcomes : ConnectDone(e, outcome)
    \/ \E e \in Entries, resp \in ReadResponses : Respond(e, resp)
    \/ \E e \in Entries : SleepDone(e)
    \/ \E e \in Entries : Finish(e)
    \/ \E h \in Instances : ConnectionLost(h)

SpecHost == Init /\ [][NextHost]_vars

\* ------------------------------------------------------------------ claims
\* an attempt is accepted: no exception, no error flag, as many values as
\* were asked for
AcceptedResponse(r) ==
    r.resp.got /\ r.resp.exc = "none" /\ ~r.resp.err /\ Len(r.resp.vals) = r.count

\* C1: on every host at most one transport read/write call is in flight,
\* whatever operations were issued concurrently on it.
C1_TransportDepthAtMostOne ==
    \A h \in Instances : inflight[h] <= 1

\* a write_register is in flight while a read_holding_registers issued on
\* the same host waits for the lock
C1_Witness ==
    \E e, f \in Entries :
        /\ op[e].pc = "inflight" /\ op[e].kind = "write_register"
        /\ op[f].pc = "waitlock" /\ op[f].kind = "read_holding_registers"
        /\ op[e].host = op[f].host

\* C2: a retried read whose k-th attempt (1 <= k <= max_retries) is the
\* first accepted one returns the values of that attempt and has issued
\* exactly k transport reads, k - 1 of them rejected; a read that goes on
\* has not had its last response accepted.
C2_AcceptedAttemptEndsRead ==
    \A e \in Entries :
        op[e].kind \in RetryReads =>
            /\ (op[e].pc = "done" /\ AcceptedResponse(op[e])) =>
                   /\ op[e].result = [tag |-> "values", vals |-> op[e].resp.vals]
                   /\ op[e].issued = op[e].rejected + 1
                   /\ op[e].issued = op[e].attempt + 1
                   /\ op[e].issued <= MaxRetries
            /\ op[e].pc \in {"sleep", "connecting", "inflight"} =>
                   ~AcceptedResponse(op[e])

\* two attempts rejected, the third and last accepted
C2_Witness ==
    \E e \in Entries :
        /\ op[e].kind \in RetryReads /\ op[e].pc = "done"
        /\ AcceptedResponse(op[e])
        /\ op[e].rejected = MaxRetries - 1
        /\ op[e].issued = MaxRetries
        /\ op[e].result.tag = "values"

\* C3: a retried read all of whose max_retries attempts are rejected
\* returns None after exactly max_retries transport reads and exactly
\* max_retries - 1 waits of retry_delay each; None is returned in no other
\* case, and every wait of a read lasts retry_delay.
C3_ExhaustedReadReturnsNone ==
    \A e \in Entries :
        op[e].kind \in RetryReads =>
            /\ op[e].waited = op[e].sleeps * RetryDelayMs
            /\ (op[e].pc = "done"
                  /\ (op[e].rejected = MaxRetries \/ op[e].result.tag = "None")) =>
                   /\ op[e].result.tag = "None"
                   /\ op[e].rejected = MaxRetries
                   /\ op[e].issued = MaxRetries
                   /\ op[e].sleeps = MaxRetries - 1

\* a read of input registers ended by exhaustion
C3_Witness ==
    \E e \in Entries :
        /\ op[e].kind = "read_input_registers" /\ op[e].pc = "done"
        /\ op[e].rejected = MaxRetries
        /\ op[e].result.tag = "None"
        /\ op[e].waited = (MaxRetries - 1) * RetryDelayMs

\* C4: a write issues its transport call at most once and never waits.
C4_WriteNeverRetries ==
    \A e \in Entries :
        op[e].kind \in Writes =>
            /\ op[e].issued <= 1
            /\ op[e].sleeps = 0
            /\ op[e].waited = 0
            /\ op[e].pc # "sleep"

\* a write ended after a response that carries the error flag
C4_Witness ==
    \E e \in Entries :
        /\ op[e].kind \in Writes /\ op[e].pc = "done"
        /\ op[e].resp.got /\ op[e].resp.err
        /\ op[e].issued = 1

\* C5: a write returns True when the response has no error flag and False
\* when it has one.
C5_WriteResultIsBoolean ==
    \A e \in Entries :
        (op[e].kind \in Writes /\ op[e].pc = "done") =>
            /\ op[e].result.tag \in {"True", "False"}
            /\ (op[e].resp.got /\ op[e].resp.exc = "none") =>
                   (op[e].result.tag = "True" <=> ~op[e].resp.err)

\* C6: a write in which connect() or the transport write raised returns
\* False, raises nothing, and has issued the transport write at most once.
C6_WriteExceptionGivesFalse ==
    \A e \in Entries :
        (op[e].kind \in Writes /\ op[e].pc = "done" /\ op[e].resp.exc # "none") =>
            /\ op[e].result.tag = "False"
            /\ op[e].issued = (IF op[e].resp.got THEN 1 ELSE 0)

\* one write ended by an exception of connect(), another by an exception
\* other than a Modbus one raised by the transport write
C6_Witness ==
    \E e, f \in Entries :
        /\ op[e].kind \in Writes /\ op[e].pc = "done"
        /\ op[e].resp.exc = "ModbusIOException" /\ ~op[e].resp.got
        /\ op[f].kind = "write_coil" /\ op[f].pc = "done"
        /\ op[f].resp.exc = "Exception" /\ op[f].resp.got
        /\ op[e].result.tag = "False" /\ op[f].result.tag = "False"

\* C7: no read ends by an exception reaching its caller.
C7_ReadNeverRaises ==
    \A e \in Entries :
        (op[e].kind \in OpKinds \ Writes /\ op[e].pc = "done") =>
            op[e].result.tag # "raised"

\* the entry holds a subscription: add_subscriber was called for it and
\* remove_subscriber not yet
Subscribed(e) ==
    entry_pc[e] \in {"forwarding", "adding", "loaded", "unloading"}

\* an async_unload_entry of the endpoint has brought the count to zero and
\* is suspended before it deletes the entry of the table
Closing(k) == \E e \in Entries : host_key(e) = k /\ entry_pc[e] = "closing"

\* subscriber count of the host the table holds for the endpoint
TableCount(k) == IF k \in DOMAIN hosts THEN subscriber_count[hosts[k]] ELSE 0

\* C8: for every endpoint the subscriber count is the number of acquires
\* minus the number of releases, is never negative, and the table holds a
\* host for the endpoint exactly when the count is above zero (stated for
\* the states in which no release of the endpoint is between its zero count
\* and its removal of the entry, the transient the data model allows).
C8_CountIsAcquiresMinusReleases ==
    \A k \in Keys :
        ~Closing(k) =>
            /\ TableCount(k) = acquired[k] - released[k]
            /\ TableCount(k) >= 0
            /\ (k \in DOMAIN hosts <=> TableCount(k) > 0)

\* C9: removal is atomic with the zero count: while a release that brought
\* the count of a host to zero has not yet removed the entry, no acquire has
\* subscribed to that host; and once no release is under way every
\* subscribed entry finds its own host in the table, with a count of at
\* least one.
C9_RemovalAtomicWithZeroCount ==
    /\ \A e \in DOMAIN unload_host : subscriber_count[unload_host[e]] = 0
    /\ \A e \in Entries :
           (Subscribed(e) /\ ~Closing(host_key(e))) =>
               /\ host_key(e) \in DOMAIN hosts
               /\ hosts[host_key(e)] = entry_data[e]
               /\ subscriber_count[entry_data[e]] >= 1

\* C10: as long as no release of the endpoint has happened, the setups of
\* the endpoint, however interleaved, have created one host, every one of
\* them holds that host, and its count is their number.
C10_ConcurrentSetupsShareOneHost ==
    \A k \in {host_key(e) : e \in Entries} :
        released[k] = 0 =>
            LET S == {e \in Entries : host_key(e) = k /\ Subscribed(e)}
            IN /\ created <= 1
               /\ acquired[k] = Cardinality(S)
               /\ S # {} =>
                      /\ k \in DOMAIN hosts
                      /\ \A e \in S : entry_data[e] = hosts[k]
                      /\ subscriber_count[hosts[k]] = Cardinality(S)

\* two setups of the same endpoint are both suspended in
\* async_forward_entry_setups and share the host, whose count is 2
C10_Witness ==
    /\ \A e \in Entries : entry_pc[e] = "forwarding"
    /\ \A e \in Entries : entry_data[e] = hosts[host_key(e)]
    /\ \A e \in Entries : subscriber_count[hosts[host_key(e)]] = Cardinality(Entries)

\* the caller is inside "async with self._lock": between the acquisition of
\* the lock and the end of the operation
Holds(e) == op[e].pc \in {"connecting", "inflight", "sleep"}

\* C11: the lock of a host is held exactly while one operation of that host
\* is between its start and its end, by that operation alone; an operation
\* that has ended, by an accepted result, exhaustion, a failed write or a
\* raised exception, no longer holds it, so the lock is free for the next.
C11_LockHeldExactlyDuringOperation ==
    \A h \in Instances :
        LET holders == {e \in Callers : Holds(e) /\ op[e].host = h}
        IN /\ locked[h] <=> holders # {}
           /\ Cardinality(holders) <= 1

\* an operation has ended by an exception and another operation of the
\* same host holds the lock and is in flight
C11_Witness ==
    \E e, f \in Entries :
        /\ op[e].pc = "done" /\ op[e].result.tag = "raised"
        /\ op[f].pc = "inflight" /\ op[f].host = entry_data[e]
        /\ locked[op[f].host]

\* C12: async_read_coil asks for one coil, never issues a second transport
\* read and never sleeps; a call that has ended has issued exactly one
\* transport read and has returned the bit of the response when the
\* response has no error flag, None otherwise.
C12_ReadCoilSingleAttempt ==
    \A e \in Callers :
        op[e].kind = "read_coil" =>
            /\ op[e].count = 1
            /\ op[e].issued <= 1 /\ op[e].attempt = 0
            /\ op[e].sleeps = 0 /\ op[e].pc # "sleep"
            /\ op[e].pc = "done" =>
                   /\ op[e].issued = 1
                   /\ op[e].result.tag \in {"bit", "None"}
                   /\ op[e].result.tag = "bit" <=>
                          (op[e].resp.got /\ op[e].resp.exc = "none"
                             /\ ~op[e].resp.err)
                   /\ op[e].result.tag = "bit" =>
                          op[e].result.vals = <<op[e].resp.vals[1]>>

\* C13: a release that leaves the count of its host above zero leaves the
\* host table and the connection state of every host as they were; a release
\* that brings the count to zero calls the disconnect of the host and, once
\* that call is over, the host is disconnected and its key is out of the
\* table.
C13_ReleaseFrame ==
    [][/\ \A k \in Keys :
              released'[k] = released[k] + 1 =>
                  LET h == hosts[k]
                  IN /\ subscriber_count'[h] = subscriber_count[h] - 1
                     /\ subscriber_count'[h] > 0 =>
                            /\ hosts' = hosts
                            /\ connected' = connected
                     /\ subscriber_count'[h] = 0 =>
                            \/ k \notin DOMAIN hosts' /\ ~connected'[h]
                            \/ \E e \in AllEntries :
                                   /\ entry_pc'[e] = "closing"
                                   /\ unload_host'[e] = h
       /\ \A e \in AllEntries :
              (entry_pc[e] = "closing" /\ entry_pc'[e] # "closing") =>
                  /\ ~connected'[unload_host[e]]
                  /\ host_key(e) \notin DOMAIN hosts']_vars

\* two acquires and one release of an endpoint: its host is still in the
\* table with a count of one and is still connected
C13_Witness ==
    \E k \in Keys :
        /\ acquired[k] = 2 /\ released[k] = 1
        /\ k \in DOMAIN hosts
        /\ subscriber_count[hosts[k]] = 1
        /\ connected[hosts[k]]

\* C14: the steps of an async_unload_entry call made for an entry that has
\* already been released change no subscriber count, leave the host table
\* and the connection state of every host as they were, and do not end in
\* an exception.
C14_RepeatedReleaseIsNoOp ==
    [][\A e \in AllEntries :
          (entry_pc[e] = "unloading_again" /\ entry_pc'[e] # "unloading_again") =>
              /\ subscriber_count' = subscriber_count
              /\ hosts' = hosts
              /\ connected' = connected
              /\ entry_pc'[e] # "key_error"]_vars

\* the tasks in the queue of a lock
Waiting(h) == {waiters[h][n] : n \in 1..Len(waiters[h])}

\* C15: a task waits for a lock only as an operation of the host of that
\* lock and only when another entity calls the same host, and a lock is
\* held only by an operation of its own host, so an
\* operation of one endpoint, also one that sleeps between two attempts,
\* never makes an operation of another endpoint wait; no operation that
\* holds a lock waits for a lock and none waits for two, so no operation
\* waits for a lock whose holder is itself waiting.
C15_LocksArePerHost ==
    /\ \A h \in Instances : \A e \in Waiting(h) :
           /\ op[e].pc = "waitlock" /\ op[e].host = h
           /\ \E f \in DOMAIN entry_data : entry_data[f] = h /\ EntryOf(e) # f
    /\ \A h \in Instances :
           locked[h] => \E e \in Callers : Holds(e) /\ op[e].host = h
    /\ \A e \in Callers :
           /\ Holds(e) => \A h \in Instances : e \notin Waiting(h)
           /\ op[e].pc = "waitlock" =>
                  /\ e \in Waiting(op[e].host)
                  /\ \A h \in Instances \ {op[e].host} : e \notin Waiting(h)

\* transport calls of two operations are in flight at the same time on the
\* hosts of two endpoints, one of them issued after a retry delay
C15_Witness ==
    \E e, f \in Callers :
        /\ op[e].pc = "inflight" /\ op[f].pc = "inflight"
        /\ op[e].host # op[f].host
        /\ inflight[op[e].host] = 1 /\ inflight[op[f].host] = 1
        /\ op[e].sleeps = 1

\* the response has no error flag but not the number of values asked for
WrongLength(r) ==
    r.resp.got /\ r.resp.exc = "none" /\ ~r.resp.err /\ Len(r.resp.vals) # r.count

\* the response has the error flag
ErrorFlag(r) == r.resp.got /\ r.resp.exc = "none" /\ r.resp.err

\* C16: the only value other than None that a retried read returns is a
\* list of exactly count values; a response without error flag and with
\* another number of values is rejected as one with the error flag is: the
\* read goes on to its next attempt while attempts remain, and after the
\* last attempt it returns None.
C16_ReturnedLengthIsCount ==
    \A e \in Callers :
        op[e].kind \in RetryReads =>
            /\ op[e].result.tag \in {"pending", "values", "None", "raised"}
            /\ op[e].result.tag = "values" =>
                   /\ Len(op[e].result.vals) = op[e].count
                   /\ AcceptedResponse(op[e])
            /\ (WrongLength(op[e]) \/ ErrorFlag(op[e])) =>
                   /\ op[e].rejected >= 1
                   /\ op[e].pc \in {"sleep", "connecting", "inflight", "done"}
                   /\ op[e].pc = "sleep" => op[e].attempt < MaxRetries - 1
                   /\ op[e].pc = "done" =>
                          /\ op[e].result = [tag |-> "None", vals |-> << >>]
                          /\ op[e].issued = MaxRetries

\* a read of two values whose last response had no error flag but one value
\* only has returned None, and an earlier attempt of it was followed by a
\* wait
C16_Witness ==
    \E e \in Entries :
        /\ op[e].kind \in RetryReads /\ op[e].pc = "done"
        /\ op[e].count = 2 /\ op[e].resp.vals = <<1>> /\ WrongLength(op[e])
        /\ op[e].result.tag = "None" /\ op[e].sleeps >= 1

\* C17: a step changes the connection state of a host only as a step of the
\* operation that holds the lock of that host; while the close() of a
\* disconnect that a release started is under way no operation of that host
\* is between the acquisition of the lock and its end; and a step of a
\* register operation changes no subscriber count.
C17_ConnectionChangesUnderLock ==
    [][/\ \A h \in Instances :
              connected'[h] # connected[h] =>
                  \E e \in Callers :
                      Holds(e) /\ op[e].host = h /\ op'[e] # op[e]
       /\ \A h \in Instances :
              (\/ disc_tasks'[h].closing > 0
               \/ \E e \in DOMAIN unload_host' : unload_host'[e] = h) =>
                  ~\E f \in Callers :
                       /\ op'[f].pc \in {"connecting", "inflight", "sleep"}
                       /\ op'[f].host = h
       /\ op' # op => subscriber_count' = subscriber_count]_vars

\* C18: the host reference stored for a subscribed entry, and the one its
\* entity calls, is the host the table holds for the endpoint of the entry;
\* and of the hosts created for an endpoint at most one has subscribers.
C18_StoredHostIsTableHost ==
    /\ \A e \in AllEntries :
           Subscribed(e) =>
               /\ host_key(e) \in DOMAIN hosts
               /\ entry_data[e] = hosts[host_key(e)]
    /\ \A e \in DOMAIN entity :
           /\ host_key(e) \in DOMAIN hosts
           /\ entity[e] = hosts[host_key(e)]
    /\ Cardinality({h \in Instances : subscriber_count[h] > 0}) <= 1

\* the states of the per-operation state machine, for a transport whose
\* calls return
StateMachine(r) ==
    /\ r.pc \in {"idle", "waitlock", "connecting", "inflight", "sleep", "done"}
    /\ r.issued <= r.connects /\ r.connects <= r.issued + 1
    /\ r.pc = "inflight" => r.connects = r.issued
    /\ r.pc = "connecting" => r.connects = r.issued + 1
    /\ r.kind \in RetryReads =>
           /\ r.issued <= MaxRetries
           /\ r.pc = "done" =>
                  \/ r.result.tag = "values" /\ AcceptedResponse(r)
                  \/ /\ r.result = [tag |-> "None", vals |-> << >>]
                     /\ r.issued = MaxRetries /\ r.rejected = MaxRetries
    /\ r.kind \in Writes =>
           /\ r.issued <= 1
           /\ r.pc # "sleep" /\ r.sleeps = 0
           /\ r.pc = "done" =>
                  \/ r.result.tag = "True" /\ ~r.resp.err
                  \/ r.result.tag = "None" /\ r.resp.err

\* C19: with a transport whose calls all return, every register operation
\* that has started ends; a retried read ends by an accepted response or
\* by exhaustion, after at most max_retries transport reads; a write ends
\* accepted or failed, after one transport write and without ever waiting;
\* and every transport call is preceded by its own async_connect().
C19_OperationsFollowStateMachine ==
    /\ [](\A e \in Callers : StateMachine(op[e]))
    /\ \A e \in Entries :
           (op[e].pc \in {"waitlock", "connecting", "inflight", "sleep"})
               ~> (op[e].pc = "done")

\* a retried read has ended exhausted after max_retries transport reads,
\* each preceded by async_connect()
C19_Witness ==
    \E e \in Entries :
        /\ op[e].kind \in RetryReads /\ op[e].pc = "done"
        /\ op[e].result.tag = "None"
        /\ op[e].issued = MaxRetries /\ op[e].connects = MaxRetries

\* C20: the lock of a host goes to the tasks in the order of their
\* requests: a task that finds the lock free takes it at once only when
\* nobody waits, a task that has to wait joins the end of the queue, and the
\* lock is handed to the head of the queue; and with a transport whose
\* calls all return, every operation that waits for the lock gets to its
\* transport call, also behind operations that exhaust their retries.
C20_LockIsFirstComeFirstServed ==
    /\ [][/\ \A e \in Callers :
                 (op[e].pc \in {"idle", "waitlock"}
                    /\ op'[e].pc \in {"connecting", "inflight"}) =>
                     LET h == op'[e].host
                     IN IF op[e].pc = "idle"
                        THEN ~locked[h] /\ waiters[h] = << >>
                        ELSE /\ ~locked[h]
                             /\ waiters[h] # << >>
                             /\ Head(waiters[h]) = e
                             /\ waiters'[h] = Tail(waiters[h])
          /\ \A h \in Instances :
                 waiters'[h] # waiters[h] =>
                     \/ waiters[h] # << >> /\ waiters'[h] = Tail(waiters[h])
                     \/ \E e \in Callers :
                            /\ op[e].pc = "idle" /\ op'[e].pc = "waitlock"
                            /\ waiters'[h] = Append(waiters[h], e)]_vars
    /\ \A e \in Entries : (op[e].pc = "waitlock") ~> (op[e].pc = "inflight")

\* the lock of a host is free and two tasks wait for it: the one that
\* queued while the lock was held and, behind it, the task of the earlier
\* holder with its next request
C20_Witness ==
    \E h \in Instances, e, f \in Entries :
        /\ e # f
        /\ ~locked[h] /\ waiters[h] = <<e, f>>
        /\ op[e].pc = "waitlock" /\ op[f].pc = "waitlock"

\* the step resumes caller e in a new operation or a new attempt
Proceeds(e) == op'[e] # op[e] \/ task'[e].step # task[e].step

\* the step issues a transport call of caller e
Issues(e) == op'[e].pc = "inflight" /\ Proceeds(e)

\* C21: the client's connect() is entered only when the client is not
\* connected, and a transport call issued without it finds the client
\* connected and leaves the connection as it is; close() is entered only
\* when the client is connected, and a disconnect of a client that is not
\* connected changes no connection state; every transport call, of every
\* attempt of a read and of every write, is issued after an async_connect()
\* of its own, on a client that is connected; and an operation that wakes
\* from its retry wait on a client that is no longer connected enters
\* connect() before its next call.
C21_ConnectBeforeEveryAttempt ==
    [][/\ \A e \in Callers :
              /\ (op'[e].pc = "connecting" /\ Proceeds(e)) =>
                     ~connected[op'[e].host]
              /\ Issues(e) =>
                     /\ op'[e].connects = op'[e].issued
                     /\ connected'[op'[e].host]
                     /\ op[e].pc # "connecting" =>
                            /\ connected[op'[e].host]
                            /\ connected' = connected
              /\ (op[e].pc = "sleep" /\ op'[e].pc # "sleep"
                     /\ ~connected[op[e].host]) =>
                     op'[e].pc = "connecting"
       /\ \A h \in Instances :
              /\ disc_tasks'[h].closing > disc_tasks[h].closing => connected[h]
              /\ (disc_tasks'[h].scheduled < disc_tasks[h].scheduled
                     /\ ~connected[h]) =>
                     /\ connected' = connected
                     /\ disc_tasks'[h].closing = disc_tasks[h].closing
       /\ \A e \in DOMAIN unload_host' \ DOMAIN unload_host :
              connected[unload_host'[e]]]_vars

\* the retried read of e has made its first attempt and has not ended
BetweenAttempts(e) ==
    /\ op[e].kind \in RetryReads
    /\ op[e].issued >= 1
    /\ op[e].pc \in {"inflight", "sleep", "connecting"}

\* C22: from the first transport read of a retried read to its end, waits
\* included, the lock of its host stays held, and no step issues a
\* transport call of another operation on that host: the attempts of the
\* read follow one another in the calls of the host.
C22_RetriesKeepTheLock ==
    /\ [](\A e \in Callers :
              BetweenAttempts(e) => locked[LockOf(op[e].host)])
    /\ [][\A e \in Callers :
              BetweenAttempts(e) =>
                  \A f \in Callers \ {e} :
                      op'[f].host = op[e].host =>
                          /\ op'[f].issued <= op[f].issued
                          /\ op'[f].pc \notin {"connecting", "inflight", "sleep"}]_vars

\* a read is in flight with its third attempt, after two waits, while an
\* operation of another caller of the same host still waits for the lock
C22_Witness ==
    \E e, f \in Entries :
        /\ e # f
        /\ op[e].kind \in RetryReads /\ op[e].pc = "inflight"
        /\ op[e].attempt = 2 /\ op[e].sleeps = 2
        /\ op[f].pc = "waitlock" /\ op[f].host = op[e].host
        /\ op[f].issued = 0


\* the step resumes coroutine t with the result of the call it awaited:
\* its poll goes on to the next read, or its command or poll is over
Resumed(t) ==
    /\ task[t].kind # "none"
    /\ task'[t].kind = "none" \/ task'[t].step = task[t].step + 1

\* C23: the cached attributes of an entity change only in the step in which
\* the write of a set_* command returns True, and then only the attribute of
\* the command, or in the step in which a read of a poll returns a value (or
\* when a platform setup builds a new entity); the step in which the write
\* of a command returns False or None leaves the cache as it was; the step
\* in which a read of a poll returns None leaves the cache as it was and,
\* unless the read was the last one, starts the next read of the poll, which
\* is issued at once or queues for the lock of the host.
C23_CacheFollowsSuccess ==
    [][/\ \A e \in AllEntries :
              cache'[e] # cache[e] =>
                  \/ \E t \in Coroutines(e) :
                         /\ Resumed(t)
                         /\ op[t].pc = "inflight"
                         /\ \/ /\ task[t].kind = "set"
                               /\ task'[t].last = "True"
                               /\ \A a \in DOMAIN InitialCache \ {task[t].attr} :
                                      cache'[e][a] = cache[e][a]
                            \/ /\ task[t].kind = "poll"
                               /\ task'[t].last = "values"
                  \/ /\ entry_pc[e] = "forwarding"
                     /\ entry_pc'[e] = "adding"
                     /\ cache'[e] = InitialCache
       /\ \A t \in Callers :
              /\ (task[t].kind = "set" /\ Resumed(t)
                     /\ task'[t].last \in {"False", "None"}) =>
                     cache' = cache
              /\ (task[t].kind = "poll" /\ Resumed(t)
                     /\ task'[t].last = "None") =>
                     /\ cache' = cache
                     /\ task[t].step < PollReads =>
                            /\ task'[t].kind = "poll"
                            /\ op'[t].kind = PollRead(task'[t].step)
                            /\ op'[t].pc \in {"connecting", "inflight",
                                               "waitlock"}]_vars

\* on an added entity, after a set_* command whose write did not report
\* success, a poll is at its second read, the first one having returned
\* None, as it had in the poll before the entity was added: the current
\* temperature is still unset
C23_Witness ==
    \E e \in AllEntries : \E t \in Coroutines(e) :
        /\ e \in DOMAIN entity
        /\ task[t].kind = "poll" /\ ~task[t].adding
        /\ task[t].step = 2
        /\ task[t].last = "None"
        /\ task[t].unwritten
        /\ op[t].pc = "inflight"
        /\ cache[e].current_temperature = << >>

====
